---------------------------- MODULE Spec2Model ----------------------------
(***************************************************************************)
(* A model of the llm-sdk client library: the LlmSDK client and its        *)
(* constructors, the typed request builders and their serialisation, the   *)
(* request-to-HTTP adapters, and the dispatch of one call through the      *)
(* tracing and retry middleware down to the transport.                     *)
(***************************************************************************)
EXTENDS Integers, Sequences, FiniteSets, TLC

VARIABLES
    sdk,        \* the LlmSDK value, or NoSdk before construction, or BuildFailed
    builder,    \* the request builder chain of the current call, or NoBuilder
    built,      \* the Result of its build() (the request of the current call), or NoBuilt
    pc,         \* "start" | "idle" | "sending" | "reading" | "done"
    op,         \* the dispatch operation in progress and its is_json, or NoOp
    req,        \* the prepared outbound HTTP request, or NoReq
    route,      \* who runs the current call at the retry stage: "retry" | "next", or "none"
    attempts,   \* sends handed to the transport in the current call
    resp,       \* what the transport answered last
    spans,      \* outcomes recorded by the tracing stage in the current call
    result      \* what the call returned to the caller, or NoResult

vars == <<sdk, builder, built, pc, op, req, route, attempts, resp, spans, result>>

-----------------------------------------------------------------------------
(* Option<T> *)

None == <<>>

Some(v) == <<v>>

unwrap(o) == o[1]

unwrap_or(o, d) == IF o = None THEN d ELSE o[1]

is_empty(s) == s = ""

-----------------------------------------------------------------------------
(* Bounds of the model *)

\* the largest retry count a caller passes to new1 or to the builder
MaxRetriesArg == 2

\* the most optional fields a request builder chain sets before build()
MaxOptionsSet == 1

-----------------------------------------------------------------------------
(* lib.rs: constants *)

TIMEOUT == 30

MAX_RETRIES == 3

BuilderDefaultMaxRetries == 3

DefaultBaseUrl == "https://api.openai.com/v1"

UserAgent == "Mozilla/5.0 (Windows NT 10.0; Win64; x64) AppleWebKit/537.36 (KHTML, like Gecko) Chrome/129.0.0.0 Safari/537.36"

Tokens == {"", "sk-1"}

BaseUrls == {"http://localhost:8080"}

RetryArgs == 0 .. MaxRetriesArg

NoSdk == [type |-> "NoSdk"]

\* no client: LlmSDKBuilder::build() returned the error e
BuildFailed(e) == [type |-> "NoSdk", error |-> e]

-----------------------------------------------------------------------------
(* Result<T, E> *)

Ok(v) == [kind |-> "ok", value |-> v]

\* derive_builder's UninitializedFieldError for the named field
UninitializedField(f) == [kind |-> "err", error |-> "UninitializedField", field |-> f]

-----------------------------------------------------------------------------
(* lib.rs: the client and its constructors *)

\* ExponentialBackoff::builder().build_with_max_retries(n): the policy's bound
build_with_max_retries(n) == n

\* RetryTransientMiddleware::new_with_policy(policy): reqwest_retry's middleware
RetryTransientMiddleware(policy) == [max_n_retries |-> policy, wrapped |-> FALSE]

\* RetryMiddleware::from(m): the crate's own wrapper around the retry
\* middleware (middleware.rs). What the wrapper does with a request is not
\* known here; see RetryStageRoutes.
RetryMiddlewareFrom(m) == [m EXCEPT !.wrapped = TRUE]

\* The middleware stack of a client, outermost first: .with() appends, and the
\* first middleware added is the first to see the request.
ClientBuilderWith(retry) ==
    [ stack         |-> <<"tracing", "retry">>,
      max_n_retries |-> retry.max_n_retries,
      wrapped       |-> retry.wrapped ]

\* default_client had it dropped the builder's max_retries
default_client_ignoring_max_retries(b) ==
    ClientBuilderWith(RetryMiddlewareFrom(
        RetryTransientMiddleware(build_with_max_retries(MAX_RETRIES))))

\* LlmSDKBuilder::default_client: b is the builder
default_client(b) ==
    LET retry_policy == build_with_max_retries(unwrap_or(b.max_retries, MAX_RETRIES))
        m == RetryTransientMiddleware(retry_policy)
    IN  ClientBuilderWith(RetryMiddlewareFrom(m))

\* the build() derive(Builder) generates for LlmSDK: token is the one field
\* declared without a default
LlmSDKBuilderBuild(b) ==
    IF b.token = None THEN UninitializedField("token")
    ELSE Ok([ type        |-> "LlmSDK",
              base_url    |-> unwrap_or(b.base_url, DefaultBaseUrl),
              token       |-> unwrap(b.token),
              max_retries |-> unwrap_or(b.max_retries, BuilderDefaultMaxRetries),
              client      |-> default_client(b),
              ctor        |-> b.ctor,
              arg_retries |-> b.max_retries ])

LlmSDKBuilderDefault ==
    [ base_url |-> None, token |-> None, max_retries |-> None, ctor |-> "builder" ]

\* .build().unwrap(): the token is set, so build() is Ok
new(token) ==
    LlmSDKBuilderBuild([LlmSDKBuilderDefault EXCEPT !.token = Some(token), !.ctor = "new"]).value

new1(base_url, token, max_retries) ==
    LET retry_policy == build_with_max_retries(max_retries)
        client == ClientBuilderWith(RetryTransientMiddleware(retry_policy))
    IN  [ type        |-> "LlmSDK",
          base_url    |-> base_url,
          token       |-> token,
          max_retries |-> 3,
          client      |-> client,
          ctor        |-> "new1",
          arg_retries |-> Some(max_retries) ]

new_with_base_url(token, base_url) ==
    LlmSDKBuilderBuild([LlmSDKBuilderDefault EXCEPT !.token = Some(token),
                                                    !.base_url = Some(base_url),
                                                    !.ctor = "new_with_base_url"]).value

-----------------------------------------------------------------------------
(* The request builder chain and its build() before there is one *)

NoBuilder == [type |-> "NoBuilder"]

NoBuilt == [kind |-> "none"]

(* JSON values as serde_json writes them *)

JStr(s) == [str |-> s]

JNum(n) == [num |-> n]

JArr(a) == [arr |-> a]

JNull == [null |-> TRUE]

-----------------------------------------------------------------------------
(* api/create_image.rs: serde writes an Option that is not skipped as null   *)
(* when it is None                                                           *)

ImageFields == <<"prompt", "model", "n", "quality", "response_format", "size", "style", "user">>

\* the values a caller hands to each setter
ImageValues ==
    [ prompt          |-> {"draw a cute caterpillar"},
      model           |-> {"DallE3"},
      n               |-> {2},
      quality         |-> {"Standard", "Hd"},
      response_format |-> {"Url", "B64Json"},
      size            |-> {"Large", "LargeWide", "LargeTall"},
      style           |-> {"Vivid", "Natural"},
      user            |-> {"u1"} ]

\* the fields whose setter is declared setter(strip_option)
ImageStripOption == {"n", "quality", "response_format", "size", "style", "user"}

CreateImageRequestBuilderDefault ==
    [ type |-> "CreateImageRequestBuilder",
      prompt |-> None, model |-> None, n |-> None, quality |-> None,
      response_format |-> None, size |-> None, style |-> None, user |-> None ]

\* the build() derive(Builder) generates for CreateImageRequest
CreateImageRequestBuilderBuild(b) ==
    IF b.prompt = None THEN UninitializedField("prompt")
    ELSE Ok([ type            |-> "CreateImageRequest",
              prompt          |-> unwrap(b.prompt),
              model           |-> unwrap_or(b.model, "DallE3"),
              n               |-> unwrap_or(b.n, None),
              quality         |-> unwrap_or(b.quality, None),
              response_format |-> unwrap_or(b.response_format, None),
              size            |-> unwrap_or(b.size, None),
              style           |-> unwrap_or(b.style, None),
              user            |-> unwrap_or(b.user, None) ])

ImageModelWire(m) == CASE m = "DallE3" -> "dall-e-3"

ImageQualityWire(q) == CASE q = "Standard" -> "standard" [] q = "Hd" -> "hd"

ImageResponseFormatWire(f) == CASE f = "Url" -> "url" [] f = "B64Json" -> "b64_json"

ImageSizeWire(z) ==
    CASE z = "Large" -> "1024x1024" [] z = "LargeWide" -> "1792x1024" [] z = "LargeTall" -> "1024x1792"

ImageStyleWire(y) == CASE y = "Vivid" -> "vivid" [] y = "Natural" -> "natural"

\* the keys written had the fields lacked skip_serializing_if
CreateImageRequestKeyWritten_unskipped(r, k) == TRUE

\* whether serde writes key k of CreateImageRequest r: skip_serializing_if = "Option::is_none"
CreateImageRequestKeyWritten(r, k) ==
    IF k \in {"n", "quality", "response_format", "size", "style", "user"}
    THEN r[k] # None
    ELSE TRUE

\* the Serialize derive(Serialize) generates for CreateImageRequest
CreateImageRequestSerialize(r) ==
    LET keys == { k \in {"prompt", "model", "n", "quality", "response_format", "size", "style", "user"} :
                    CreateImageRequestKeyWritten(r, k) }
    IN  [ k \in keys |->
            CASE k = "prompt"          -> JStr(r.prompt)
              [] k = "model"           -> JStr(ImageModelWire(r.model))
              [] k = "n"               -> IF r.n = None THEN JNull ELSE JNum(unwrap(r.n))
              [] k = "quality"         -> IF r.quality = None THEN JNull ELSE JStr(ImageQualityWire(unwrap(r.quality)))
              [] k = "response_format" -> IF r.response_format = None THEN JNull ELSE JStr(ImageResponseFormatWire(unwrap(r.response_format)))
              [] k = "size"            -> IF r.size = None THEN JNull ELSE JStr(ImageSizeWire(unwrap(r.size)))
              [] k = "style"           -> IF r.style = None THEN JNull ELSE JStr(ImageStyleWire(unwrap(r.style)))
              [] k = "user"            -> IF r.user = None THEN JNull ELSE JStr(unwrap(r.user)) ]

-----------------------------------------------------------------------------
(* api/speech.rs *)

SpeechFields == <<"model", "input", "voice", "response_format", "speed">>

\* f32 values are written in tenths: 15 is 1.5
SpeechValues ==
    [ model           |-> {"Tts1", "Tts1Hd"},
      input           |-> {"The quick brown fox"},
      voice           |-> {"Alloy", "Echo", "Fable", "Onyx", "Nova", "Shimmer"},
      response_format |-> {"Mp3", "Opus", "Aac", "Flac"},
      speed           |-> {15} ]

SpeechStripOption == {"speed"}

SpeechRequestBuilderDefault ==
    [ type |-> "SpeechRequestBuilder",
      model |-> None, input |-> None, voice |-> None, response_format |-> None, speed |-> None ]

\* the build() derive(Builder) generates for SpeechRequest
SpeechRequestBuilderBuild(b) ==
    IF b.input = None THEN UninitializedField("input")
    ELSE Ok([ type            |-> "SpeechRequest",
              model           |-> unwrap_or(b.model, "Tts1"),
              input           |-> unwrap(b.input),
              voice           |-> unwrap_or(b.voice, "Nova"),
              response_format |-> unwrap_or(b.response_format, "Mp3"),
              speed           |-> unwrap_or(b.speed, None) ])

SpeechModelWire(m) == CASE m = "Tts1" -> "tts-1" [] m = "Tts1Hd" -> "tts-1-hd"

SpeechVoiceWire(v) ==
    CASE v = "Alloy" -> "alloy" [] v = "Echo" -> "echo" [] v = "Fable" -> "fable"
      [] v = "Onyx" -> "onyx" [] v = "Nova" -> "nova" [] v = "Shimmer" -> "shimmer"

SpeechResponseFormatWire(f) ==
    CASE f = "Mp3" -> "mp3" [] f = "Opus" -> "opus" [] f = "Aac" -> "aac" [] f = "Flac" -> "flac"

SpeechRequestKeyWritten(r, k) == IF k = "speed" THEN r[k] # None ELSE TRUE

\* the Serialize derive(Serialize) generates for SpeechRequest
SpeechRequestSerialize(r) ==
    LET keys == { k \in {"model", "input", "voice", "response_format", "speed"} :
                    SpeechRequestKeyWritten(r, k) }
    IN  [ k \in keys |->
            CASE k = "model"           -> JStr(SpeechModelWire(r.model))
              [] k = "input"           -> JStr(r.input)
              [] k = "voice"           -> JStr(SpeechVoiceWire(r.voice))
              [] k = "response_format" -> JStr(SpeechResponseFormatWire(r.response_format))
              [] k = "speed"           -> IF r.speed = None THEN JNull ELSE JNum(unwrap(r.speed)) ]

-----------------------------------------------------------------------------
(* api/embedding.rs *)

EmbeddingFields == <<"input", "model", "encoding_format", "user">>

EmbeddingInputString(s) == [variant |-> "String", v |-> s]

EmbeddingInputStringArray(a) == [variant |-> "StringArray", v |-> a]

EmbeddingValues ==
    [ input           |-> { EmbeddingInputString("Hello, my dog is cute."),
                            EmbeddingInputStringArray(<<"a", "b">>) },
      model           |-> {"TextEmbeddingAda002"},
      encoding_format |-> {"Float", "Base64"},
      user            |-> {"u1"} ]

EmbeddingStripOption == {"encoding_format", "user"}

EmbeddingRequestBuilderDefault ==
    [ type |-> "EmbeddingRequestBuilder",
      input |-> None, model |-> None, encoding_format |-> None, user |-> None ]

\* the build() derive(Builder) generates for EmbeddingRequest
EmbeddingRequestBuilderBuild(b) ==
    IF b.input = None THEN UninitializedField("input")
    ELSE Ok([ type            |-> "EmbeddingRequest",
              input           |-> unwrap(b.input),
              model           |-> unwrap_or(b.model, "TextEmbeddingAda002"),
              encoding_format |-> unwrap_or(b.encoding_format, None),
              user            |-> unwrap_or(b.user, None) ])

EmbeddingModelWire(m) == CASE m = "TextEmbeddingAda002" -> "text-embedding-ada-002"

EmbeddingEncodingFormatWire(f) == CASE f = "Float" -> "float" [] f = "Base64" -> "base64"

\* serde(untagged): the variant's content alone
EmbeddingInputSerialize(i) == IF i.variant = "String" THEN JStr(i.v) ELSE JArr(i.v)

EmbeddingRequestKeyWritten(r, k) ==
    IF k \in {"encoding_format", "user"} THEN r[k] # None ELSE TRUE

\* the Serialize derive(Serialize) generates for EmbeddingRequest
EmbeddingRequestSerialize(r) ==
    LET keys == { k \in {"input", "model", "encoding_format", "user"} :
                    EmbeddingRequestKeyWritten(r, k) }
    IN  [ k \in keys |->
            CASE k = "input"           -> EmbeddingInputSerialize(r.input)
              [] k = "model"           -> JStr(EmbeddingModelWire(r.model))
              [] k = "encoding_format" -> IF r.encoding_format = None THEN JNull ELSE JStr(EmbeddingEncodingFormatWire(unwrap(r.encoding_format)))
              [] k = "user"            -> IF r.user = None THEN JNull ELSE JStr(unwrap(r.user)) ]

-----------------------------------------------------------------------------
(* api/whisper.rs *)

WhisperFields == <<"file", "model", "language", "prompt", "response_format", "temperature", "request_type">>

\* temperature is an f32, written in tenths: 2 is 0.2
WhisperValues ==
    [ file            |-> {<<73, 68, 51>>},
      model           |-> {"Whisper1"},
      language        |-> {"fr"},
      prompt          |-> {"names: Ada"},
      response_format |-> {"Json", "Text", "Srt", "VerboseJson", "Vtt"},
      temperature     |-> {2},
      request_type    |-> {"Transcription", "Translation"} ]

WhisperStripOption == {"language", "prompt", "temperature"}

WhisperRequestBuilderDefault ==
    [ type |-> "WhisperRequestBuilder",
      file |-> None, model |-> None, language |-> None, prompt |-> None,
      response_format |-> None, temperature |-> None, request_type |-> None ]

\* build() had request_type been declared #[builder(default)]
WhisperRequestBuilderBuild_defaulted_type(b) ==
    IF b.file = None THEN UninitializedField("file")
    ELSE Ok([ type            |-> "WhisperRequest",
              file            |-> unwrap(b.file),
              model           |-> unwrap_or(b.model, "Whisper1"),
              language        |-> unwrap_or(b.language, None),
              prompt          |-> unwrap_or(b.prompt, None),
              response_format |-> unwrap_or(b.response_format, "Json"),
              temperature     |-> unwrap_or(b.temperature, None),
              request_type    |-> unwrap_or(b.request_type, "Transcription") ])

\* the build() derive(Builder) generates for WhisperRequest
WhisperRequestBuilderBuild(b) ==
    IF b.file = None THEN UninitializedField("file")
    ELSE IF b.request_type = None THEN UninitializedField("request_type")
    ELSE Ok([ type            |-> "WhisperRequest",
              file            |-> unwrap(b.file),
              model           |-> unwrap_or(b.model, "Whisper1"),
              language        |-> unwrap_or(b.language, None),
              prompt          |-> unwrap_or(b.prompt, None),
              response_format |-> unwrap_or(b.response_format, "Json"),
              temperature     |-> unwrap_or(b.temperature, None),
              request_type    |-> unwrap(b.request_type) ])

\* strum Display of WhisperModel
WhisperModelToString(m) == CASE m = "Whisper1" -> "whisper-1"

\* strum Display of WhisperResponseFormat, serialize_all = "snake_case"
WhisperResponseFormatToString(f) ==
    CASE f = "Json" -> "json" [] f = "Text" -> "text" [] f = "Srt" -> "srt"
      [] f = "VerboseJson" -> "verbose_json" [] f = "Vtt" -> "vtt"

\* f32::to_string of a value given in tenths
F32ToString(t) == CASE t = 0 -> "0" [] t = 2 -> "0.2" [] t = 10 -> "1" [] t = 15 -> "1.5"

FormText(name, value) == [name |-> name, text |-> value]

FormPart(name, bytes, file_name, mime) ==
    [name |-> name, bytes |-> bytes, file_name |-> file_name, mime |-> mime]

\* the language step had it matched on self.language alone
into_form_language_any_type(form, request_type, language) ==
    IF language # None
    THEN Append(form, FormText("language", unwrap(language)))
    ELSE form

\* the language step of into_form: match (self.request_type, self.language)
into_form_language(form, request_type, language) ==
    IF request_type = "Transcription" /\ language # None
    THEN Append(form, FormText("language", unwrap(language)))
    ELSE form

\* WhisperRequest::into_form: the parts of the multipart form, in order
into_form(r) ==
    LET part == FormPart("file", r.file, "file.mp3", "audio/mp3")
        form0 == << part,
                    FormText("model", WhisperModelToString(r.model)),
                    FormText("response_format", WhisperResponseFormatToString(r.response_format)) >>
        form1 == into_form_language(form0, r.request_type, r.language)
        form2 == IF r.prompt # None
                 THEN Append(form1, FormText("prompt", unwrap(r.prompt)))
                 ELSE form1
    IN  IF r.temperature # None
        THEN Append(form2, FormText("temperature", F32ToString(unwrap(r.temperature))))
        ELSE form2

\* the Serialize derive(Serialize) generates for WhisperRequest: no field is
\* skipped and no variant is renamed
WhisperRequestSerialize(r) ==
    [ file            |-> JArr(r.file),
      model           |-> JStr(r.model),
      language        |-> IF r.language = None THEN JNull ELSE JStr(unwrap(r.language)),
      prompt          |-> IF r.prompt = None THEN JNull ELSE JStr(unwrap(r.prompt)),
      response_format |-> JStr(r.response_format),
      temperature     |-> IF r.temperature = None THEN JNull ELSE JNum(unwrap(r.temperature)),
      request_type    |-> JStr(r.request_type) ]

-----------------------------------------------------------------------------
(* chat completion: the request type lives in api/chat_completion.rs *)

ChatCompletionRequestNew == Ok([type |-> "ChatCompletionRequest", messages |-> <<"hello">>])

ChatCompletionRequestSerialize(r) == [ k \in {"messages"} |-> JArr(r.messages) ]

-----------------------------------------------------------------------------
(* IntoRequest: the request-to-HTTP adapters *)

NoReq == [method |-> "none"]

\* client.post(url)
Post(url) == [method |-> "POST", url |-> url, headers |-> <<>>, body |-> None, timeout |-> None]

Header(name, value) == <<name, value>>

\* RequestBuilder::json
WithJson(rb, payload) ==
    [rb EXCEPT !.headers = Append(@, Header("content-type", "application/json")),
               !.body = Some([json |-> payload])]

\* RequestBuilder::multipart
WithMultipart(rb, form) ==
    [rb EXCEPT !.headers = Append(@, Header("content-type", "multipart/form-data")),
               !.body = Some([multipart |-> form])]

CreateImageRequest_into_request(r, base_url) ==
    WithJson(Post(base_url \o "/images/generations"), CreateImageRequestSerialize(r))

SpeechRequest_into_request(r, base_url) ==
    WithJson(Post(base_url \o "/audio/speech"), SpeechRequestSerialize(r))

EmbeddingRequest_into_request(r, base_url) ==
    WithJson(Post(base_url \o "/embeddings"), EmbeddingRequestSerialize(r))

\* the adapter had it told the two apart by whether a language is set
WhisperRequest_into_request_by_language(r, base_url) ==
    LET url == IF r.language # None
               THEN base_url \o "/audio/transcriptions"
               ELSE base_url \o "/audio/translations"
    IN  WithMultipart(Post(url), into_form(r))

WhisperRequest_into_request(r, base_url) ==
    LET url == IF r.request_type = "Transcription"
               THEN base_url \o "/audio/transcriptions"
               ELSE base_url \o "/audio/translations"
    IN  WithMultipart(Post(url), into_form(r))

ChatCompletionRequest_into_request(r, base_url) ==
    WithJson(Post(base_url \o "/chat/completions"), ChatCompletionRequestSerialize(r))

into_request(r, base_url) ==
    CASE r.type = "CreateImageRequest"    -> CreateImageRequest_into_request(r, base_url)
      [] r.type = "SpeechRequest"         -> SpeechRequest_into_request(r, base_url)
      [] r.type = "EmbeddingRequest"      -> EmbeddingRequest_into_request(r, base_url)
      [] r.type = "WhisperRequest"        -> WhisperRequest_into_request(r, base_url)
      [] r.type = "ChatCompletionRequest" -> ChatCompletionRequest_into_request(r, base_url)

\* RequestBuilder::bearer_auth
bearer_auth(rb, token) ==
    [rb EXCEPT !.headers = Append(@, Header("authorization", "Bearer " \o token))]

\* RequestBuilder::header
header(rb, name, value) == [rb EXCEPT !.headers = Append(@, Header(name, value))]

\* the branch had it attached the headers whatever the token
prepare_request_auth_unconditional(s, rb) ==
    header(bearer_auth(rb, s.token), "user-agent", UserAgent)

\* the branch of prepare_request on self.token.is_empty()
prepare_request_auth(s, rb) ==
    IF is_empty(s.token)
    THEN rb
    ELSE header(bearer_auth(rb, s.token), "user-agent", UserAgent)

\* LlmSDK::prepare_request
prepare_request(s, r) ==
    LET rb0 == into_request(r, s.base_url)
        rb1 == prepare_request_auth(s, rb0)
    IN  [rb1 EXCEPT !.timeout = Some(TIMEOUT)]

-----------------------------------------------------------------------------
(* The transport and the response bodies it may deliver *)

BodyWhisperJson == "{\"text\":\"hola\"}"

BodyPlain == "hola"

BodyApiError == "{\"error\":\"bad prompt\"}"

BodyImage == "{\"created\":1,\"data\":[]}"

BodyChat == "{\"choices\":[]}"

Bodies == {BodyWhisperJson, BodyPlain, BodyApiError, BodyImage, BodyChat}

Statuses == {200, 400, 408, 429, 500}

Response(status, body) == [kind |-> "response", status |-> status, body |-> body]

\* a network-level failure of the send: no response
TransportError(k) == [kind |-> "error", error |-> k]

\* the connection could not be made
NetworkError == TransportError("connect")

\* the redirect policy gave up
RedirectError == TransportError("redirect")

\* the retry middleware could not clone the request: nothing was sent
MiddlewareError == TransportError("middleware")

NoResp == [kind |-> "none"]

Outcomes ==
    { Response(st, b) : st \in Statuses, b \in Bodies } \cup {NetworkError, RedirectError}

\* StatusCode::is_client_error, is_server_error, is_success
is_client_error(status) == status >= 400 /\ status < 500

is_server_error(status) == status >= 500 /\ status < 600

is_success(status) == status >= 200 /\ status < 300

\* serde_json's parse of a body: Some(the object) or None when it is not JSON
JsonParse(body) ==
    CASE body = BodyWhisperJson -> Some([text |-> JStr("hola")])
      [] body = BodyApiError    -> Some([error |-> JStr("bad prompt")])
      [] body = BodyImage       -> Some([created |-> JNum(1), data |-> JArr(<<>>)])
      [] body = BodyChat        -> Some([choices |-> JArr(<<>>)])
      [] OTHER                  -> None

HasKey(obj, k, tag) == k \in DOMAIN obj /\ tag \in DOMAIN obj[k]

\* the error reqwest reports when a body does not decode as the asked type
DecodeError == [kind |-> "err", message |-> "error decoding response body"]

\* the error the send reports when the transport failed
SendError == [kind |-> "err", message |-> "error sending request"]

\* the error of a body read that failed: the connection was lost or the
\* request's timeout elapsed while the body was read
BodyReadError == [kind |-> "err", message |-> "error reading response body"]

\* Response::text, Response::bytes: the awaited read of the body of res, which
\* gives the whole body when the body is readable to its end
text(res, readable) == IF readable THEN Ok(res.body) ELSE BodyReadError

bytes(res, readable) == IF readable THEN Ok(res.body) ELSE BodyReadError

\* res.json::<WhisperResponse>(): the body is read, then decoded
json_WhisperResponse(res, readable) ==
    LET full == bytes(res, readable)
        v == JsonParse(full.value)
    IN  IF full.kind = "err" THEN full
        ELSE IF v # None /\ HasKey(unwrap(v), "text", "str")
        THEN Ok([text |-> unwrap(v)["text"].str])
        ELSE DecodeError

\* res.json::<CreateImageResponse>()
json_CreateImageResponse(res, readable) ==
    LET full == bytes(res, readable)
        v == JsonParse(full.value)
    IN  IF full.kind = "err" THEN full
        ELSE IF v # None /\ HasKey(unwrap(v), "created", "num") /\ HasKey(unwrap(v), "data", "arr")
        THEN Ok([created |-> unwrap(v)["created"].num, data |-> unwrap(v)["data"].arr])
        ELSE DecodeError

\* res.json::<ChatCompletionResponse>(); the type lives in api/chat_completion.rs
json_ChatCompletionResponse(res, readable) ==
    LET full == bytes(res, readable)
        v == JsonParse(full.value)
    IN  IF full.kind = "err" THEN full
        ELSE IF v # None /\ HasKey(unwrap(v), "choices", "arr")
        THEN Ok([choices |-> unwrap(v)["choices"].arr])
        ELSE DecodeError

-----------------------------------------------------------------------------
(* The middleware stack: tracing and retry *)

\* reqwest_retry's default classification of what one send produced: of the
\* errors, a failed connection or a timeout is transient and the others are fatal
Retryable(outcome) ==
    IF outcome.kind = "error"
    THEN IF outcome.error \in {"connect", "timeout"} THEN "Transient" ELSE "Fatal"
    ELSE IF is_server_error(outcome.status) THEN "Transient"
    ELSE IF is_client_error(outcome.status) /\ outcome.status # 408 /\ outcome.status # 429
         THEN "Fatal"
    ELSE IF is_success(outcome.status) THEN "Success"
    ELSE IF outcome.status = 408 \/ outcome.status = 429 THEN "Transient"
    ELSE "Fatal"

\* Request::try_clone: None when the body is a stream, which the body of a
\* multipart form is
try_clone(rb) ==
    IF rb.body # None /\ "multipart" \in DOMAIN unwrap(rb.body) THEN None ELSE Some(rb)

\* Who runs a request at the retry stage. For new1's client it is the retry
\* middleware. For a client of default_client it is the wrapper of
\* middleware.rs, which for each request may hand the request to the retry
\* middleware it wraps or hand it straight to the next stage (one send, no
\* retry): the comment above new1 says that new cannot retry.
RetryStageRoutes(client) == IF client.wrapped THEN {"retry", "next"} ELSE {"retry"}

\* the retry middleware clones the request before every send and returns an
\* error, sending nothing, when the request cannot be cloned
RetryRefuses(r, rb) == r = "retry" /\ try_clone(rb) = None

\* the error the call returns then
NotCloneable ==
    [kind |-> "err",
     message |-> "Request object is not cloneable. Are you passing a streaming body?"]

\* the retry stage's decision after a send, n_past_retries retries made so far
ShouldRetry(client, r, outcome, n_past_retries) ==
    /\ r = "retry"
    /\ Retryable(outcome) = "Transient"
    /\ n_past_retries < client.max_n_retries

Index(stack, name) == CHOOSE i \in 1 .. Len(stack) : stack[i] = name

\* whether the tracing stage sees each send (it sits inside the retry stage) or
\* only what the retry stage hands back (it sits outside)
TracingSeesEachSend(client) == Index(client.stack, "tracing") > Index(client.stack, "retry")

\* the tracing stage's records after a send; final when the retry stage returns
Traced(client, recorded, outcome, final) ==
    IF TracingSeesEachSend(client) \/ final THEN Append(recorded, outcome) ELSE recorded

-----------------------------------------------------------------------------
(* lib.rs: what each operation does with what the middleware stack returned *)

NoResult == [kind |-> "none"]

NoOp == [name |-> "none", is_json |-> FALSE]

ApiFailed(body_text) == [kind |-> "err", message |-> "API failed: " \o body_text]

\* the status check had it tested is_server_error alone
send_and_log_rejects_server_only(status) == is_server_error(status)

\* whether send_and_log takes its error branch on this status
send_and_log_rejects(status) == is_client_error(status) \/ is_server_error(status)

\* SendAndLog::send_and_log: Ok(the response) or the error; on a 4xx/5xx the
\* body is read here, and a failed read is the error returned
send_and_log(outcome, readable) ==
    IF outcome.kind = "error" THEN SendError
    ELSE IF send_and_log_rejects(outcome.status)
         THEN LET t == text(outcome, readable)
              IN  IF t.kind = "err" THEN t ELSE ApiFailed(t.value)
    ELSE Ok(outcome)

\* RequestBuilder::send
send(outcome) == IF outcome.kind = "error" THEN SendError ELSE Ok(outcome)

chat_completion(outcome, readable) ==
    LET res == send_and_log(outcome, readable)
    IN  IF res.kind = "err" THEN res ELSE json_ChatCompletionResponse(res.value, readable)

create_image(outcome, readable) ==
    LET res == send(outcome)
    IN  IF res.kind = "err" THEN res ELSE json_CreateImageResponse(res.value, readable)

speech(outcome, readable) ==
    LET res == send_and_log(outcome, readable)
    IN  IF res.kind = "err" THEN res ELSE bytes(res.value, readable)

\* the parse step had it decoded JSON whatever the format
whisper_parse_always_json(is_json, res, readable) == json_WhisperResponse(res, readable)

\* the parse step of whisper on a response send_and_log let through
whisper_parse(is_json, res, readable) ==
    IF is_json THEN json_WhisperResponse(res, readable)
    ELSE LET t == text(res, readable)
         IN  IF t.kind = "err" THEN t ELSE Ok([text |-> t.value])

whisper(is_json, outcome, readable) ==
    LET res == send_and_log(outcome, readable)
    IN  IF res.kind = "err" THEN res ELSE whisper_parse(is_json, res.value, readable)

embedding(outcome, readable) ==
    LET res == send_and_log(outcome, readable)
    IN  IF res.kind = "err" THEN res ELSE bytes(res.value, readable)

\* the operation o from the point where its send has returned outcome
Finish(o, outcome, readable) ==
    CASE o.name = "chat_completion" -> chat_completion(outcome, readable)
      [] o.name = "create_image"    -> create_image(outcome, readable)
      [] o.name = "speech"          -> speech(outcome, readable)
      [] o.name = "whisper"         -> whisper(o.is_json, outcome, readable)
      [] o.name = "embedding"       -> embedding(outcome, readable)

-----------------------------------------------------------------------------
(* The request builders, by builder type *)

BuilderTypes ==
    {"CreateImageRequestBuilder", "SpeechRequestBuilder",
     "EmbeddingRequestBuilder", "WhisperRequestBuilder"}

BuilderDefault(t) ==
    CASE t = "CreateImageRequestBuilder" -> CreateImageRequestBuilderDefault
      [] t = "SpeechRequestBuilder"      -> SpeechRequestBuilderDefault
      [] t = "EmbeddingRequestBuilder"   -> EmbeddingRequestBuilderDefault
      [] t = "WhisperRequestBuilder"     -> WhisperRequestBuilderDefault

FieldsOf(t) ==
    CASE t = "CreateImageRequestBuilder" -> ImageFields
      [] t = "SpeechRequestBuilder"      -> SpeechFields
      [] t = "EmbeddingRequestBuilder"   -> EmbeddingFields
      [] t = "WhisperRequestBuilder"     -> WhisperFields

ValuesOf(t) ==
    CASE t = "CreateImageRequestBuilder" -> ImageValues
      [] t = "SpeechRequestBuilder"      -> SpeechValues
      [] t = "EmbeddingRequestBuilder"   -> EmbeddingValues
      [] t = "WhisperRequestBuilder"     -> WhisperValues

StripOptionOf(t) ==
    CASE t = "CreateImageRequestBuilder" -> ImageStripOption
      [] t = "SpeechRequestBuilder"      -> SpeechStripOption
      [] t = "EmbeddingRequestBuilder"   -> EmbeddingStripOption
      [] t = "WhisperRequestBuilder"     -> WhisperStripOption

\* the fields declared without #[builder(default)]
RequiredOf(t) ==
    CASE t = "CreateImageRequestBuilder" -> {"prompt"}
      [] t = "SpeechRequestBuilder"      -> {"input"}
      [] t = "EmbeddingRequestBuilder"   -> {"input"}
      [] t = "WhisperRequestBuilder"     -> {"file", "request_type"}

FieldSet(t) == { FieldsOf(t)[i] : i \in 1 .. Len(FieldsOf(t)) }

\* the setter derive(Builder) generates for field f: strip_option wraps the value
Setter(b, f, v) ==
    [b EXCEPT ![f] = IF f \in StripOptionOf(b.type) THEN Some(Some(v)) ELSE Some(v)]

Build(b) ==
    CASE b.type = "CreateImageRequestBuilder" -> CreateImageRequestBuilderBuild(b)
      [] b.type = "SpeechRequestBuilder"      -> SpeechRequestBuilderBuild(b)
      [] b.type = "EmbeddingRequestBuilder"   -> EmbeddingRequestBuilderBuild(b)
      [] b.type = "WhisperRequestBuilder"     -> WhisperRequestBuilderBuild(b)

\* the defaulted fields the chain has set so far
OptionsSet(b) == { f \in FieldSet(b.type) \ RequiredOf(b.type) : b[f] # None }

-----------------------------------------------------------------------------
(* The state machine *)

Init ==
    /\ sdk = NoSdk
    /\ builder = NoBuilder
    /\ built = NoBuilt
    /\ pc = "start"
    /\ op = NoOp
    /\ req = NoReq
    /\ route = "none"
    /\ attempts = 0
    /\ resp = NoResp
    /\ spans = <<>>
    /\ result = NoResult

\* what every constructor leaves alone
ConstructorFrame == UNCHANGED <<builder, built, op, req, route, attempts, resp, spans, result>>

\* LlmSDK::new(token)
New ==
    \E token \in Tokens :
        /\ pc = "start"
        /\ sdk' = new(token)
        /\ pc' = "idle"
        /\ ConstructorFrame

\* LlmSDK::new1(base_url, token, max_retries)
New1 ==
    \E base_url \in BaseUrls, token \in Tokens, max_retries \in RetryArgs :
        /\ pc = "start"
        /\ sdk' = new1(base_url, token, max_retries)
        /\ pc' = "idle"
        /\ ConstructorFrame

\* LlmSDK::new_with_base_url(token, base_url)
NewWithBaseUrl ==
    \E token \in Tokens, base_url \in BaseUrls :
        /\ pc = "start"
        /\ sdk' = new_with_base_url(token, base_url)
        /\ pc' = "idle"
        /\ ConstructorFrame

\* LlmSDKBuilder::default()[.token(..)][.base_url(..)][.max_retries(..)].build():
\* with the token unset build() is an error and there is no client
BuilderBuildSdk ==
    \E token \in {None} \cup { Some(t) : t \in Tokens },
       base_url \in {None} \cup { Some(u) : u \in BaseUrls },
       max_retries \in {None} \cup { Some(n) : n \in RetryArgs } :
        LET r == LlmSDKBuilderBuild(
                    [LlmSDKBuilderDefault EXCEPT !.token = token,
                                                 !.base_url = base_url,
                                                 !.max_retries = max_retries])
        IN  /\ pc = "start"
            /\ sdk' = IF r.kind = "ok" THEN r.value ELSE BuildFailed(r)
            /\ pc' = IF r.kind = "ok" THEN "idle" ELSE "start"
            /\ ConstructorFrame

\* <Request>Builder::default()
BuilderNew ==
    /\ pc = "idle"
    /\ \E t \in BuilderTypes : builder' = BuilderDefault(t)
    /\ built' = NoBuilt
    /\ UNCHANGED <<sdk, pc, op, req, route, attempts, resp, spans, result>>

\* a setter of the builder chain
BuilderSet ==
    /\ pc = "idle"
    /\ builder # NoBuilder
    /\ built = NoBuilt
    /\ \E f \in FieldSet(builder.type) : \E v \in ValuesOf(builder.type)[f] :
          /\ Cardinality(OptionsSet(Setter(builder, f, v))) <= MaxOptionsSet
          /\ builder' = Setter(builder, f, v)
    /\ UNCHANGED <<sdk, built, pc, op, req, route, attempts, resp, spans, result>>

\* build() at the end of the chain
BuilderBuild ==
    /\ pc = "idle"
    /\ builder # NoBuilder
    /\ built = NoBuilt
    /\ built' = Build(builder)
    /\ UNCHANGED <<sdk, builder, pc, op, req, route, attempts, resp, spans, result>>

\* a chat completion request, built by the code of api/chat_completion.rs
ChatRequestNew ==
    /\ pc = "idle"
    /\ builder' = NoBuilder
    /\ built' = ChatCompletionRequestNew
    /\ UNCHANGED <<sdk, pc, op, req, route, attempts, resp, spans, result>>

\* an operation was handed a request of its type
Handed(type) == pc = "idle" /\ built.kind = "ok" /\ built.value.type = type

\* the send enters the middleware stack
Sending ==
    /\ pc' = "sending"
    /\ route' \in RetryStageRoutes(sdk.client)
    /\ attempts' = 0
    /\ UNCHANGED <<sdk, builder, built, resp, spans, result>>

\* LlmSDK::chat_completion, up to the send
CallChatCompletion ==
    /\ Handed("ChatCompletionRequest")
    /\ op' = [name |-> "chat_completion", is_json |-> FALSE]
    /\ req' = prepare_request(sdk, built.value)
    /\ Sending

\* LlmSDK::create_image, up to the send
CallCreateImage ==
    /\ Handed("CreateImageRequest")
    /\ op' = [name |-> "create_image", is_json |-> FALSE]
    /\ req' = prepare_request(sdk, built.value)
    /\ Sending

\* LlmSDK::speech, up to the send
CallSpeech ==
    /\ Handed("SpeechRequest")
    /\ op' = [name |-> "speech", is_json |-> FALSE]
    /\ req' = prepare_request(sdk, built.value)
    /\ Sending

\* LlmSDK::whisper, up to the send: is_json is taken before the request is moved
CallWhisper ==
    /\ Handed("WhisperRequest")
    /\ op' = [name |-> "whisper", is_json |-> built.value.response_format = "Json"]
    /\ req' = prepare_request(sdk, built.value)
    /\ Sending

\* LlmSDK::embedding, up to the send
CallEmbedding ==
    /\ Handed("EmbeddingRequest")
    /\ op' = [name |-> "embedding", is_json |-> FALSE]
    /\ req' = prepare_request(sdk, built.value)
    /\ Sending

\* the retry middleware cannot clone the request: it returns its error with
\* nothing sent, the tracing stage outside it records that, and the awaited
\* send of the operation returns the error
CloneRefused ==
    /\ pc = "sending"
    /\ RetryRefuses(route, req)
    /\ spans' = IF TracingSeesEachSend(sdk.client) THEN spans
                ELSE Append(spans, MiddlewareError)
    /\ result' = NotCloneable
    /\ pc' = "done"
    /\ UNCHANGED <<sdk, builder, built, op, req, route, attempts, resp>>

\* the transport answers a send and the retry stage sends again after its backoff
\* (each retry is a send of a clone of the request)
SendRetried ==
    /\ pc = "sending"
    /\ ~RetryRefuses(route, req)
    /\ \E outcome \in Outcomes :
          /\ ShouldRetry(sdk.client, route, outcome, attempts)
          /\ resp' = outcome
          /\ spans' = Traced(sdk.client, spans, outcome, FALSE)
    /\ attempts' = attempts + 1
    /\ UNCHANGED <<sdk, builder, built, pc, op, req, route, result>>

\* the transport answers a send and the retry stage hands the outcome back:
\* the awaited send of the operation returns. A network error ends the call;
\* with a response the operation goes on to the awaited read of its body
SendReturned ==
    /\ pc = "sending"
    /\ ~RetryRefuses(route, req)
    /\ \E outcome \in Outcomes :
          /\ ~ShouldRetry(sdk.client, route, outcome, attempts)
          /\ resp' = outcome
          /\ spans' = Traced(sdk.client, spans, outcome, TRUE)
          /\ IF outcome.kind = "error"
             THEN pc' = "done" /\ result' = Finish(op, outcome, FALSE)
             ELSE pc' = "reading" /\ result' = NoResult
    /\ attempts' = attempts + 1
    /\ UNCHANGED <<sdk, builder, built, op, req, route>>

\* the awaited read of the response's body (text, bytes or json) returns, with
\* the body or with the error of the read, and the operation returns
BodyRead ==
    /\ pc = "reading"
    /\ \E readable \in BOOLEAN : result' = Finish(op, resp, readable)
    /\ pc' = "done"
    /\ UNCHANGED <<sdk, builder, built, op, req, route, attempts, resp, spans>>

\* the caller takes the result and the request is dropped; the client is ready
\* for the next call
Return ==
    /\ pc = "done"
    /\ pc' = "idle"
    /\ op' = NoOp
    /\ req' = NoReq
    /\ route' = "none"
    /\ attempts' = 0
    /\ resp' = NoResp
    /\ spans' = <<>>
    /\ result' = NoResult
    /\ builder' = NoBuilder
    /\ built' = NoBuilt
    /\ UNCHANGED sdk

Next ==
    \/ New
    \/ New1
    \/ NewWithBaseUrl
    \/ BuilderBuildSdk
    \/ BuilderNew
    \/ BuilderSet
    \/ BuilderBuild
    \/ ChatRequestNew
    \/ CallChatCompletion
    \/ CallCreateImage
    \/ CallSpeech
    \/ CallWhisper
    \/ CallEmbedding
    \/ CloneRefused
    \/ SendRetried
    \/ SendReturned
    \/ BodyRead
    \/ Return

Spec == Init /\ [][Next]_vars

-----------------------------------------------------------------------------
(* Vocabulary of the properties *)

IsResponse(o) == o.kind = "response"

IsErrorStatus(o) == IsResponse(o) /\ (is_client_error(o.status) \/ is_server_error(o.status))

\* the retry count the caller configured: the constructor's argument, or the
\* default when the caller gave none
ConfiguredRetries(s) == unwrap_or(s.arg_retries, BuilderDefaultMaxRetries)

\* an error message that carries the text of the body
CarriesBody(message, body) == \E prefix \in {"", "API failed: "} : message = prefix \o body

HeaderValues(rb, name) ==
    { rb.headers[i][2] : i \in { j \in 1 .. Len(rb.headers) : rb.headers[j][1] = name } }

-----------------------------------------------------------------------------
(* C1: whenever a call of any operation ends on a response whose status is   *)
(* 4xx or 5xx and whose body was delivered (the read of it did not fail),    *)
(* the caller gets an error whose message carries the response body, never   *)
(* a success value.                                                          *)

C1_ErrorStatusFailsWithBody ==
    (pc = "done" /\ IsErrorStatus(resp) /\ result # BodyReadError) =>
        (result.kind = "err" /\ CarriesBody(result.message, resp.body))

-----------------------------------------------------------------------------
(* C2, for a client made by new1, whose retry stage is the retry middleware  *)
(* itself: a call never makes more than max_retries + 1 sends; a failed      *)
(* connection or a 500 answered to a send while fewer than max_retries       *)
(* retries were made is followed by another send; a 200 is followed by no    *)
(* further send, only by the read of its body, and the call then returns a   *)
(* success value unless that body cannot be read or decoded; and a call ends *)
(* only on the answer to a send, after at least one send. So k failures and  *)
(* then a 200 end the call with the success value after exactly k + 1 sends. *)

C2_SendStep == pc = "sending" /\ attempts' = attempts + 1

C2_New1 == sdk.type = "LlmSDK" /\ sdk.ctor = "new1"

C2_SuccessReturned ==
    /\ result.kind = "ok" \/ result \in {DecodeError, BodyReadError}
    /\ op.name \in {"speech", "embedding"} => result \in {Ok(resp.body), BodyReadError}

C2_BoundedRetries ==
    /\ [](sdk.type = "LlmSDK" => attempts <= ConfiguredRetries(sdk) + 1)
    /\ []((C2_New1 /\ pc = "done") =>
            /\ attempts >= 1
            /\ (IsResponse(resp) /\ resp.status = 200) => C2_SuccessReturned)
    /\ [][ (C2_New1 /\ C2_SendStep /\ attempts < ConfiguredRetries(sdk)
              /\ (resp' = NetworkError \/ (IsResponse(resp') /\ resp'.status = 500)))
           => (pc' = "sending" /\ result' = NoResult) ]_vars
    /\ [][ (C2_New1 /\ C2_SendStep /\ IsResponse(resp') /\ resp'.status = 200)
           => pc' = "reading" ]_vars
    /\ [][ pc = "reading"
           => (pc' = "done" /\ attempts' = attempts /\ resp' = resp) ]_vars

-----------------------------------------------------------------------------
(* C3 as stated: a retry is pending only after a network error or a 5xx, and *)
(* a first send answered with any 4xx status is followed by no other send,   *)
(* only by the read of the body, and the call ends with the error, which     *)
(* carries the body when the body is delivered. (Stated for the operations   *)
(* that check the status; create_image does not, which is C1.)               *)

C3_ErrorSurfaced ==
    /\ result.kind = "err"
    /\ result # BodyReadError => result = ApiFailed(resp.body)

C3_Fatal4xx(o) == IsResponse(o) /\ is_client_error(o.status) /\ o.status \notin {408, 429}

-----------------------------------------------------------------------------
(* C4: the retry bound of the client's transport is the client's max_retries *)
(* field, which is 3 when the caller gave none and is n for new1(_, _, n).   *)

C4_RetryBoundIsMaxRetries ==
    sdk.type = "LlmSDK" =>
        /\ sdk.client.max_n_retries = sdk.max_retries
        /\ sdk.arg_retries = None => sdk.max_retries = BuilderDefaultMaxRetries
        /\ sdk.ctor = "new1" => sdk.max_retries = unwrap(sdk.arg_retries)

-----------------------------------------------------------------------------
(* C5: a prepared request carries an authorization header exactly when the   *)
(* client's token is not empty, and then its one value is "Bearer " followed *)
(* by the client's token.                                                    *)

C5_BearerIffToken ==
    req # NoReq =>
        /\ (HeaderValues(req, "authorization") # {}) <=> (sdk.token # "")
        /\ sdk.token # "" => HeaderValues(req, "authorization") = {"Bearer " \o sdk.token}

C5_Witness ==
    /\ pc = "sending"
    /\ sdk.token = "sk-1"
    /\ HeaderValues(req, "authorization") = {"Bearer sk-1"}

-----------------------------------------------------------------------------
(* C6: every prepared request carries the fixed user-agent header, whatever  *)
(* the operation and whether or not the token is empty.                      *)

C6_UserAgentAlways == req # NoReq => HeaderValues(req, "user-agent") = {UserAgent}

-----------------------------------------------------------------------------
(* Vocabulary of the request properties *)

\* the request value of the current call and the payload sent for it
CallHasRequest == built.kind = "ok" /\ req # NoReq

IsJsonBody(rb) == "json" \in DOMAIN unwrap(rb.body)

Form(rb) == unwrap(rb.body).multipart

FormTexts(rb, name) ==
    { Form(rb)[i].text : i \in { j \in 1 .. Len(Form(rb)) : Form(rb)[j].name = name } }

FormCount(rb, name) == Cardinality({ j \in 1 .. Len(Form(rb)) : Form(rb)[j].name = name })

PayloadKeys(rb) ==
    IF IsJsonBody(rb) THEN DOMAIN unwrap(rb.body).json
    ELSE { Form(rb)[i].name : i \in 1 .. Len(Form(rb)) }

\* the fields of each request type that are declared Option<..>
OptionFields(t) ==
    CASE t = "CreateImageRequestBuilder" -> {"n", "quality", "response_format", "size", "style", "user"}
      [] t = "SpeechRequestBuilder"      -> {"speed"}
      [] t = "EmbeddingRequestBuilder"   -> {"encoding_format", "user"}
      [] t = "WhisperRequestBuilder"     -> {"language", "prompt", "temperature"}

\* the wire form of value v of Option field f, as the provider expects it
ExpectedWire(t, f, v) ==
    CASE t = "CreateImageRequestBuilder" ->
            ( CASE f = "n"               -> JNum(v)
                [] f = "quality"         -> JStr(IF v = "Hd" THEN "hd" ELSE "standard")
                [] f = "response_format" -> JStr(IF v = "Url" THEN "url" ELSE "b64_json")
                [] f = "size"            -> JStr(CASE v = "Large" -> "1024x1024"
                                                   [] v = "LargeWide" -> "1792x1024"
                                                   [] v = "LargeTall" -> "1024x1792")
                [] f = "style"           -> JStr(IF v = "Vivid" THEN "vivid" ELSE "natural")
                [] f = "user"            -> JStr(v) )
      [] t = "SpeechRequestBuilder"      -> JNum(v)
      [] t = "EmbeddingRequestBuilder"   ->
            ( CASE f = "encoding_format" -> JStr(IF v = "Float" THEN "float" ELSE "base64")
                [] f = "user"            -> JStr(v) )
      [] t = "WhisperRequestBuilder"     ->
            ( CASE f = "language"    -> v
                [] f = "prompt"      -> v
                [] f = "temperature" -> IF v = 2 THEN "0.2" ELSE "other" )

\* the payload holds key f once, with the wire form of v
PayloadHas(rb, t, f, v) ==
    IF IsJsonBody(rb)
    THEN f \in PayloadKeys(rb) /\ unwrap(rb.body).json[f] = ExpectedWire(t, f, v)
    ELSE FormCount(rb, f) = 1 /\ FormTexts(rb, f) = {ExpectedWire(t, f, v)}

\* no key of a JSON payload is null
NoNull(rb) == IsJsonBody(rb) => \A k \in PayloadKeys(rb) : unwrap(rb.body).json[k] # JNull

-----------------------------------------------------------------------------
(* C7: the form of a Translation request has no language field even when a   *)
(* language was set; the form of a Transcription request has a language      *)
(* field exactly when a language was set, holding that language.             *)

C7_LanguageOnlyForTranscription ==
    (CallHasRequest /\ built.value.type = "WhisperRequest") =>
        /\ built.value.request_type = "Translation" => FormCount(req, "language") = 0
        /\ (built.value.request_type = "Transcription" /\ built.value.language = None)
              => FormCount(req, "language") = 0
        /\ (built.value.request_type = "Transcription" /\ built.value.language # None)
              => (FormCount(req, "language") = 1
                    /\ FormTexts(req, "language") = {unwrap(built.value.language)})

\* a Translation request with a language set was turned into its form
C7_Witness ==
    /\ pc = "sending"
    /\ built.value.type = "WhisperRequest"
    /\ built.value.request_type = "Translation"
    /\ built.value.language = Some("fr")
    /\ FormCount(req, "language") = 0
    /\ FormCount(req, "file") = 1

-----------------------------------------------------------------------------
(* C8: a whisper call that ended on a response that is not an error status   *)
(* and whose body was delivered returns, for response format Json, the text  *)
(* key of the JSON body when it returns a value, and for every other format  *)
(* the entire body as the text.                                              *)

C8_WhisperText ==
    (pc = "done" /\ op.name = "whisper" /\ IsResponse(resp) /\ ~IsErrorStatus(resp)
       /\ result # BodyReadError) =>
        /\ built.value.response_format = "Json" =>
              /\ result.kind \in {"ok", "err"}
              /\ result.kind = "ok" =>
                    (JsonParse(resp.body) # None
                       /\ result.value = [text |-> unwrap(JsonParse(resp.body)).text.str])
              /\ resp.body = BodyWhisperJson => result.kind = "ok"
        /\ built.value.response_format # "Json" => result = Ok([text |-> resp.body])

\* format Text and a JSON body: the text is the body itself, not its text key
C8_Witness ==
    /\ pc = "done"
    /\ op.name = "whisper"
    /\ built.value.response_format = "Text"
    /\ resp = Response(200, BodyWhisperJson)
    /\ result = Ok([text |-> BodyWhisperJson])

-----------------------------------------------------------------------------
(* C9: build() of a builder with a required field unset fails with the       *)
(* uninitialized-field error for one of the unset required fields, gives no  *)
(* request and no send follows; with all required fields set it gives the    *)
(* request whose every field is the value set, or its declared default.      *)

\* the default each defaulted field declares (#[default] of its type; None for an Option)
DeclaredDefault(t, f) ==
    CASE f \in OptionFields(t) -> None
      [] t = "CreateImageRequestBuilder" /\ f = "model" -> "DallE3"
      [] t = "SpeechRequestBuilder" /\ f = "model" -> "Tts1"
      [] t = "SpeechRequestBuilder" /\ f = "voice" -> "Nova"
      [] t = "SpeechRequestBuilder" /\ f = "response_format" -> "Mp3"
      [] t = "EmbeddingRequestBuilder" /\ f = "model" -> "TextEmbeddingAda002"
      [] t = "WhisperRequestBuilder" /\ f = "model" -> "Whisper1"
      [] t = "WhisperRequestBuilder" /\ f = "response_format" -> "Json"

C9_Required(t) ==
    CASE t = "CreateImageRequestBuilder" -> {"prompt"}
      [] t = "SpeechRequestBuilder"      -> {"input"}
      [] t = "EmbeddingRequestBuilder"   -> {"input"}
      [] t = "WhisperRequestBuilder"     -> {"file", "request_type"}

C9_Unset == { f \in C9_Required(builder.type) : builder[f] = None }

C9_BuildValidates ==
    (builder # NoBuilder /\ built # NoBuilt) =>
        /\ C9_Unset # {} =>
              /\ built.kind = "err"
              /\ built.error = "UninitializedField"
              /\ built.field \in C9_Unset
              /\ pc = "idle" /\ req = NoReq /\ attempts = 0 /\ resp = NoResp
        /\ C9_Unset = {} =>
              /\ built.kind = "ok"
              /\ \A f \in FieldSet(builder.type) :
                    built.value[f] = IF builder[f] = None
                                     THEN DeclaredDefault(builder.type, f)
                                     ELSE unwrap(builder[f])

\* build() of a whisper builder whose file is set and request type is not
C9_Witness ==
    /\ builder # NoBuilder
    /\ builder.type = "WhisperRequestBuilder"
    /\ builder.file # None
    /\ built = UninitializedField("request_type")

-----------------------------------------------------------------------------
(* C10 as stated: for every Option field of the request, the payload sent    *)
(* has no key for it when it was left unset, and has the key with the value  *)
(* set when it was set.                                                      *)

C10_OptionFieldKeyIffSet ==
    (CallHasRequest /\ builder # NoBuilder) =>
        \A f \in OptionFields(builder.type) :
            /\ builder[f] = None => f \notin PayloadKeys(req)
            /\ builder[f] # None =>
                  PayloadHas(req, builder.type, f, unwrap(unwrap(builder[f])))

(* C10 amended: the same, except that the language of a WhisperRequest is in *)
(* the form only when the request type is Transcription; and no key of a     *)
(* JSON payload is null.                                                     *)

C10_Dropped(f) ==
    /\ builder.type = "WhisperRequestBuilder"
    /\ f = "language"
    /\ built.value.request_type = "Translation"

C10_OptionFieldKeyIffSetExceptLanguage ==
    (CallHasRequest /\ builder # NoBuilder) =>
        /\ NoNull(req)
        /\ \A f \in OptionFields(builder.type) :
              /\ (builder[f] = None \/ C10_Dropped(f)) => f \notin PayloadKeys(req)
              /\ (builder[f] # None /\ ~C10_Dropped(f)) =>
                    PayloadHas(req, builder.type, f, unwrap(unwrap(builder[f])))

\* an image request with the quality set and the other options left unset
C10_Witness ==
    /\ pc = "sending"
    /\ builder # NoBuilder
    /\ builder.type = "CreateImageRequestBuilder"
    /\ builder.quality = Some(Some("Hd"))
    /\ unwrap(req.body).json["quality"] = JStr("hd")
    /\ PayloadKeys(req) = {"prompt", "model", "quality"}

-----------------------------------------------------------------------------
(* C11: every request sent for an image, speech, embedding or whisper        *)
(* request is a POST to the client's base URL followed by the operation's    *)
(* path: /images/generations, /audio/speech, /embeddings, and for a whisper  *)
(* request /audio/transcriptions exactly when its request type is            *)
(* Transcription and /audio/translations exactly when it is Translation,     *)
(* whatever its other fields hold.                                           *)

C11_Path(r) ==
    CASE r.type = "CreateImageRequest" -> "/images/generations"
      [] r.type = "SpeechRequest"      -> "/audio/speech"
      [] r.type = "EmbeddingRequest"   -> "/embeddings"
      [] r.type = "WhisperRequest" /\ r.request_type = "Transcription" -> "/audio/transcriptions"
      [] r.type = "WhisperRequest" /\ r.request_type = "Translation"   -> "/audio/translations"

C11_PostToOperationPath ==
    (CallHasRequest /\ built.value.type # "ChatCompletionRequest") =>
        /\ req.method = "POST"
        /\ req.url = sdk.base_url \o C11_Path(built.value)

\* a Translation request with a language set, sent by a client with its own base URL
C11_Witness ==
    /\ pc = "sending"
    /\ built.value.type = "WhisperRequest"
    /\ built.value.request_type = "Translation"
    /\ built.value.language = Some("fr")
    /\ sdk.base_url = "http://localhost:8080"
    /\ req.method = "POST"
    /\ req.url = "http://localhost:8080/audio/translations"

-----------------------------------------------------------------------------
(* C12: the tracing stage records every send of a call: when a call that     *)
(* made n sends has ended, n outcomes were recorded, one per send, the last  *)
(* of them the outcome of the last send.                                     *)

C12_EverySendTraced ==
    pc = "done" =>
        /\ Len(spans) = attempts
        /\ spans[Len(spans)] = resp

=============================================================================
